---- MODULE Spec2Model ----
(***************************************************************************)
(* i3bargo: six updater goroutines sample host metrics and send Update     *)
(* values over one unbuffered channel to the loop in main, which stores    *)
(* each update in its slot of `state` and prints the whole state as one    *)
(* frame.  src/main.go holds two programs: the first (lines 1-349) reports *)
(* a failed measurement as an Update carrying an Error, the second (lines  *)
(* 350-670) has no Error field and its updaters return or skip on failure. *)
(* The variable rev says which of the two programs is running.             *)
(***************************************************************************)
EXTENDS Integers, Sequences, FiniteSets, TLC

VARIABLES
    rev,        \* which program of src/main.go runs: 1 (lines 1-349) or 2 (lines 350-670)
    pc,         \* pc[k]: position of updater goroutine k
    msg,        \* msg[k]: the Update goroutine k is blocked sending, or NoUpdate
    mainPc,     \* position of main's loop: "recv" (blocked in range) or "handle"
    update,     \* main's loop variable (NoUpdate outside the loop body)
    state,      \* main's state slice, indexed by place
    logs,       \* number of lines written to the logs file
    frame,      \* the frame printed last (its elements in print order), <<>> before the first
    stray,      \* lines printed to stdout by an updater goroutine
    started,    \* measurements started so far (all updaters)
    nReceived,  \* updates received by main so far
    nFrames,    \* frames printed so far
    last,       \* last[k]: the update received last for place k, or NoUpdate
    pending,    \* pending[k]: updates goroutine k has sent that no frame was printed for yet
    held,       \* held[k]: resources (open files, timeout contexts) goroutine k holds
    timedOut    \* the command of volume's last measurement was killed by its deadline

vars == <<rev, pc, msg, mainPc, update, state, logs, frame, stray, started, nReceived, nFrames, last, pending, held, timedOut>>

\* Total number of measurement cycles explored (all updaters together).
MaxCycles == 3

\* The updaters slice of main, in slot order.
updaters == <<"memory", "volume", "temperature", "battery", "uptime", "datetime">>

N == Len(updaters)

Places == 0 .. (N - 1)

\* The updater started for place k: go updater(uint(i), updates).
Kind(k) == updaters[k + 1]

Revisions == {1, 2}

NoError == "nil"

\* A non-nil error value; main only formats it into the log line.
SomeError == "error"

\* A nil json.RawMessage / []byte.
NilContent == ""

\* json.Marshal of a Block with FullText, Separator and SeparatorBlockWidth set.
Marshal(fullText) ==
    "{\"full_text\":\"" \o fullText \o "\",\"separator\":true,\"separator_block_width\":20}"

\* The literal main stores for a failed update.
ErrorUnit == "{\"full_text\":\" error\",\"separator\":true,\"separator_block_width\":20}"

\* The literal main prints for a slot of length 0.
EmptyUnit == "{\"full_text\":\"\"}"

\* Sample texts each measurement function can format.
FullTexts(kind) ==
    CASE kind = "memory"      -> {"2.00G"}
      [] kind = "volume"      -> {"50%", "off"}
      [] kind = "temperature" -> {"42C"}
      [] kind = "battery"     -> {"100%"}
      [] kind = "uptime"      -> {"1h0m0s"}
      [] kind = "datetime"    -> {"2024-01-01 00:00:00"}

\* The error returns of each measurement function (none for datetime: json.Marshal
\* of a Block cannot fail).
Failures(kind) ==
    CASE kind = "memory"      -> {"open", "scan"}
      [] kind = "volume"      -> {"exec", "timeout", "parse"}
      [] kind = "temperature" -> {"read", "parse"}
      [] kind = "battery"     -> {"get", "duration"}
      [] kind = "uptime"      -> {"read", "parse"}
      [] kind = "datetime"    -> {}

NoUpdate == [Place |-> -1, Content |-> NilContent, Error |-> NoError]

\* Update as it would be with the place off by one.
UpdateShifted(place, content, err) == [Place |-> place + 1, Content |-> content, Error |-> err]

\* Update{Place: place, Content: out, Error: err}
Update(place, content, err) == [Place |-> place, Content |-> content, Error |-> err]

\* What a measurement of this kind acquires and must release: memory opens
\* /proc/meminfo, volume creates a timeout context for its command.
Acquired(kind) == IF kind \in {"memory", "volume"} THEN 1 ELSE 0

\* Resources held after one more cycle that reached the send.  In the first
\* program the defer is in the measurement function and runs when it returns;
\* in the second it is in the updater's loop and runs only when the updater returns.
HeldAfterCycle(h, r, kind) == IF r = 1 THEN h ELSE h + Acquired(kind)

\* timedOut after goroutine k measured with outcome e ("ok" or a failure).
TimedOutAfter(k, e) == IF Kind(k) = "volume" THEN e = "timeout" ELSE timedOut

Init ==
    /\ rev \in Revisions
    /\ pc = [k \in Places |-> "measure"]
    /\ msg = [k \in Places |-> NoUpdate]
    /\ mainPc = "recv"
    /\ update = NoUpdate
    /\ state = [k \in Places |-> NilContent]
    /\ logs = 0
    /\ frame = <<>>
    /\ stray = 0
    /\ started = 0
    /\ nReceived = 0
    /\ nFrames = 0
    /\ last = [k \in Places |-> NoUpdate]
    /\ pending = [k \in Places |-> 0]
    /\ held = [k \in Places |-> 0]
    /\ timedOut = FALSE

\* Measure as it would be if the updater wrote its slot of state itself.
MeasureDirect(k) ==
    /\ rev = 1
    /\ pc[k] = "measure"
    /\ started < MaxCycles
    /\ \/ \E t \in FullTexts(Kind(k)) :
            /\ msg' = [msg EXCEPT ![k] = Update(k, Marshal(t), NoError)]
            /\ state' = [state EXCEPT ![k] = Marshal(t)]
            /\ timedOut' = TimedOutAfter(k, "ok")
       \/ \E e \in Failures(Kind(k)) :
            /\ msg' = [msg EXCEPT ![k] = Update(k, NilContent, SomeError)]
            /\ state' = [state EXCEPT ![k] = ErrorUnit]
            /\ timedOut' = TimedOutAfter(k, e)
    /\ pc' = [pc EXCEPT ![k] = "send"]
    /\ started' = started + 1
    /\ held' = [held EXCEPT ![k] = HeldAfterCycle(@, rev, Kind(k))]
    /\ pending' = [pending EXCEPT ![k] = @ + 1]
    /\ UNCHANGED <<rev, mainPc, update, logs, frame, stray, nReceived, nFrames, last>>

\* Measure as it would be if a failed measurement returned its partial output
\* together with the error.
MeasureBoth(k) ==
    /\ rev = 1
    /\ pc[k] = "measure"
    /\ started < MaxCycles
    /\ \/ \E t \in FullTexts(Kind(k)) :
            /\ msg' = [msg EXCEPT ![k] = Update(k, Marshal(t), NoError)]
            /\ timedOut' = TimedOutAfter(k, "ok")
       \/ \E e \in Failures(Kind(k)), t \in FullTexts(Kind(k)) :
            /\ msg' = [msg EXCEPT ![k] = Update(k, Marshal(t), SomeError)]
            /\ timedOut' = TimedOutAfter(k, e)
    /\ pc' = [pc EXCEPT ![k] = "send"]
    /\ started' = started + 1
    /\ held' = [held EXCEPT ![k] = HeldAfterCycle(@, rev, Kind(k))]
    /\ pending' = [pending EXCEPT ![k] = @ + 1]
    /\ UNCHANGED <<rev, mainPc, update, state, logs, frame, stray, nReceived, nFrames, last>>

\* Measure as it would be with a buffered channel: the send completes at once
\* and the goroutine goes to sleep with its update still in the channel.
MeasureBuffered(k) ==
    /\ rev = 1
    /\ pc[k] = "measure"
    /\ started < MaxCycles
    /\ \/ \E t \in FullTexts(Kind(k)) :
            /\ msg' = [msg EXCEPT ![k] = Update(k, Marshal(t), NoError)]
            /\ timedOut' = TimedOutAfter(k, "ok")
       \/ \E e \in Failures(Kind(k)) :
            /\ msg' = [msg EXCEPT ![k] = Update(k, NilContent, SomeError)]
            /\ timedOut' = TimedOutAfter(k, e)
    /\ pc' = [pc EXCEPT ![k] = "sleep"]
    /\ started' = started + 1
    /\ held' = [held EXCEPT ![k] = HeldAfterCycle(@, rev, Kind(k))]
    /\ pending' = [pending EXCEPT ![k] = @ + 1]
    /\ UNCHANGED <<rev, mainPc, update, state, logs, frame, stray, nReceived, nFrames, last>>

\* First program: out, err := f(); the goroutine then blocks in updates <- Update{...}.
Measure(k) ==
    /\ rev = 1
    /\ pc[k] = "measure"
    /\ started < MaxCycles
    /\ \/ \E t \in FullTexts(Kind(k)) :
            /\ msg' = [msg EXCEPT ![k] = Update(k, Marshal(t), NoError)]
            /\ timedOut' = TimedOutAfter(k, "ok")
       \/ \E e \in Failures(Kind(k)) :
            /\ msg' = [msg EXCEPT ![k] = Update(k, NilContent, SomeError)]
            /\ timedOut' = TimedOutAfter(k, e)
    /\ pc' = [pc EXCEPT ![k] = "send"]
    /\ started' = started + 1
    /\ held' = [held EXCEPT ![k] = HeldAfterCycle(@, rev, Kind(k))]
    /\ pending' = [pending EXCEPT ![k] = @ + 1]
    /\ UNCHANGED <<rev, mainPc, update, state, logs, frame, stray, nReceived, nFrames, last>>

\* Second program, a measurement that succeeds: the goroutine blocks in
\* updates <- Update{Place: place, Content: out}.
LegacyMeasure(k) ==
    /\ rev = 2
    /\ pc[k] = "measure"
    /\ started < MaxCycles
    /\ \E t \in FullTexts(Kind(k)) :
            msg' = [msg EXCEPT ![k] = Update(k, Marshal(t), NoError)]
    /\ timedOut' = TimedOutAfter(k, "ok")
    /\ pc' = [pc EXCEPT ![k] = "send"]
    /\ started' = started + 1
    /\ held' = [held EXCEPT ![k] = HeldAfterCycle(@, rev, Kind(k))]
    /\ pending' = [pending EXCEPT ![k] = @ + 1]
    /\ UNCHANGED <<rev, mainPc, update, state, logs, frame, stray, nReceived, nFrames, last>>

\* Second program, battery: on an error it sleeps a second and continues, sending nothing.
LegacySkip(k) ==
    /\ rev = 2
    /\ pc[k] = "measure"
    /\ started < MaxCycles
    /\ Kind(k) = "battery"
    /\ \E e \in Failures(Kind(k)) : pc' = [pc EXCEPT ![k] = "sleep"]
    /\ started' = started + 1
    /\ UNCHANGED <<rev, msg, mainPc, update, state, logs, frame, stray, nReceived, nFrames, last, pending, held, timedOut>>

\* Second program, the other updaters: on an error the goroutine returns, which
\* runs its deferred calls; memory first prints the error of Fscanf to stdout.
LegacyReturn(k) ==
    /\ rev = 2
    /\ pc[k] = "measure"
    /\ started < MaxCycles
    /\ Kind(k) # "battery"
    /\ \E e \in Failures(Kind(k)) :
            /\ stray' = IF Kind(k) = "memory" /\ e = "scan" THEN stray + 1 ELSE stray
            /\ timedOut' = TimedOutAfter(k, e)
    /\ pc' = [pc EXCEPT ![k] = "done"]
    /\ held' = [held EXCEPT ![k] = 0]
    /\ started' = started + 1
    /\ UNCHANGED <<rev, msg, mainPc, update, state, logs, frame, nReceived, nFrames, last, pending>>

\* Receive as it would be if main took the next update before finishing the last.
ReceiveWhileBusy(k) ==
    /\ pc[k] = "send"
    /\ update' = msg[k]
    /\ mainPc' = "handle"
    /\ pc' = [pc EXCEPT ![k] = "sleep"]
    /\ msg' = [msg EXCEPT ![k] = NoUpdate]
    /\ nReceived' = nReceived + 1
    /\ last' = [last EXCEPT ![k] = msg[k]]
    /\ UNCHANGED <<rev, state, logs, frame, stray, started, nFrames, pending, held, timedOut>>

\* Receive as it would be if main stopped receiving once an updater has returned.
ReceiveAllAlive(k) ==
    /\ mainPc = "recv"
    /\ pc[k] = "send"
    /\ \A j \in Places : pc[j] # "done"
    /\ update' = msg[k]
    /\ mainPc' = "handle"
    /\ pc' = [pc EXCEPT ![k] = "sleep"]
    /\ msg' = [msg EXCEPT ![k] = NoUpdate]
    /\ nReceived' = nReceived + 1
    /\ last' = [last EXCEPT ![k] = msg[k]]
    /\ UNCHANGED <<rev, state, logs, frame, stray, started, nFrames, pending, held, timedOut>>

\* The unbuffered channel: the send of goroutine k completes when main's range
\* receives it; the goroutine goes on to time.Sleep.
Receive(k) ==
    /\ mainPc = "recv"
    /\ pc[k] = "send"
    /\ update' = msg[k]
    /\ mainPc' = "handle"
    /\ pc' = [pc EXCEPT ![k] = "sleep"]
    /\ msg' = [msg EXCEPT ![k] = NoUpdate]
    /\ nReceived' = nReceived + 1
    /\ last' = [last EXCEPT ![k] = msg[k]]
    /\ UNCHANGED <<rev, state, logs, frame, stray, started, nFrames, pending, held, timedOut>>

\* Assigned as it would be with the slot index off by one.
AssignedNext(st, u) == [st EXCEPT ![(u.Place + 1) % N] = u.Content]

\* Assigned as it would be if a slot holding the error unit were never overwritten.
AssignedSticky(st, u) ==
    IF st[u.Place] = ErrorUnit THEN st ELSE [st EXCEPT ![u.Place] = u.Content]

\* state[update.Place] = update.Content
Assigned(st, u) == [st EXCEPT ![u.Place] = u.Content]

\* Substituted as it would be if the error branch were taken for every update.
SubstitutedAlways(st, u) == [st EXCEPT ![u.Place] = ErrorUnit]

\* Substituted as it would be without the error branch.
SubstitutedNever(st, u) == st

\* if update.Error != nil { ...; state[update.Place] = json.RawMessage(`...`) }
Substituted(st, u) == IF u.Error # NoError THEN [st EXCEPT ![u.Place] = ErrorUnit] ELSE st

\* Shown as it would be without the length test.
ShownRaw(s) == s

\* if len(s) == 0 { s = []byte(`{"full_text":""}`) }
Shown(s) == IF Len(s) = 0 THEN EmptyUnit ELSE s

\* RenderFrom as it would be if the loop stopped one element early.
RECURSIVE RenderFromShort(_, _)
RenderFromShort(st, i) ==
    IF i >= Cardinality(DOMAIN st) - 1 THEN <<>>
    ELSE <<Shown(st[i])>> \o RenderFromShort(st, i + 1)

\* RenderFrom as it would be if the element of the slot just updated were marked.
RECURSIVE RenderFromMarked(_, _)
RenderFromMarked(st, i) ==
    IF i > Cardinality(DOMAIN st) - 1 THEN <<>>
    ELSE <<IF i = update.Place THEN Shown(st[i]) \o "*" ELSE Shown(st[i])>>
            \o RenderFromMarked(st, i + 1)

\* for i, s := range state { ... fmt.Printf("\t%s%s\n", s, comma) }, from index i on.
RECURSIVE RenderFrom(_, _)
RenderFrom(st, i) ==
    IF i > Cardinality(DOMAIN st) - 1 THEN <<>>
    ELSE <<Shown(st[i])>> \o RenderFrom(st, i + 1)

Render(st) == RenderFrom(st, 0)

\* Handle as it would be if an update carrying an error ended main's loop.
HandleFatal ==
    /\ mainPc = "handle"
    /\ state' = Substituted(Assigned(state, update), update)
    /\ logs' = IF update.Error # NoError THEN logs + 1 ELSE logs
    /\ frame' = Render(state')
    /\ nFrames' = nFrames + 1
    /\ mainPc' = IF update.Error # NoError THEN "stopped" ELSE "recv"
    /\ update' = NoUpdate
    /\ pending' = [pending EXCEPT ![update.Place] = @ - 1]
    /\ UNCHANGED <<rev, pc, msg, stray, started, nReceived, last, held, timedOut>>

\* One iteration of main's loop body.
Handle ==
    /\ mainPc = "handle"
    /\ state' = Substituted(Assigned(state, update), update)
    /\ logs' = IF update.Error # NoError THEN logs + 1 ELSE logs
    /\ frame' = Render(state')
    /\ nFrames' = nFrames + 1
    /\ mainPc' = "recv"
    /\ update' = NoUpdate
    /\ pending' = [pending EXCEPT ![update.Place] = @ - 1]
    /\ UNCHANGED <<rev, pc, msg, stray, started, nReceived, last, held, timedOut>>

\* time.Sleep returns and the for loop starts its next cycle.
Wake(k) ==
    /\ pc[k] = "sleep"
    /\ pc' = [pc EXCEPT ![k] = "measure"]
    /\ UNCHANGED <<rev, msg, mainPc, update, state, logs, frame, stray, started, nReceived, nFrames, last, pending, held, timedOut>>

Next ==
    \/ \E k \in Places : Measure(k)
    \/ \E k \in Places : LegacyMeasure(k)
    \/ \E k \in Places : LegacySkip(k)
    \/ \E k \in Places : LegacyReturn(k)
    \/ \E k \in Places : Receive(k)
    \/ Handle
    \/ \E k \in Places : Wake(k)

Spec == Init /\ [][Next]_vars

\* The scheduler runs every goroutine that can run, and a goroutine blocked in a
\* send is served by the channel's queue of waiting senders.
Fairness ==
    /\ WF_vars(Handle)
    /\ \A k \in Places : SF_vars(Receive(k))

FairSpec == Spec /\ Fairness


(***************************************************************************)
(* main with two stub updaters, slots 0 and 1, that send the texts of the   *)
(* end-to-end scenario.                                                    *)
(***************************************************************************)

ScenarioPlaces == {0, 1}

ScenarioTexts == {"50%", "2024-01-01 00:00:00"}

ScenarioInit ==
    /\ rev = 1
    /\ pc = [k \in ScenarioPlaces |-> "measure"]
    /\ msg = [k \in ScenarioPlaces |-> NoUpdate]
    /\ mainPc = "recv"
    /\ update = NoUpdate
    /\ state = [k \in ScenarioPlaces |-> NilContent]
    /\ logs = 0
    /\ frame = <<>>
    /\ stray = 0
    /\ started = 0
    /\ nReceived = 0
    /\ nFrames = 0
    /\ last = [k \in ScenarioPlaces |-> NoUpdate]
    /\ pending = [k \in ScenarioPlaces |-> 0]
    /\ held = [k \in ScenarioPlaces |-> 0]
    /\ timedOut = FALSE

\* A stub updater: it sends a text of the scenario, or an error.
ScenarioMeasure(k) ==
    /\ pc[k] = "measure"
    /\ started < MaxCycles
    /\ \/ \E t \in ScenarioTexts :
            msg' = [msg EXCEPT ![k] = Update(k, Marshal(t), NoError)]
       \/ msg' = [msg EXCEPT ![k] = Update(k, NilContent, SomeError)]
    /\ pc' = [pc EXCEPT ![k] = "send"]
    /\ started' = started + 1
    /\ pending' = [pending EXCEPT ![k] = @ + 1]
    /\ UNCHANGED <<rev, mainPc, update, state, logs, frame, stray, nReceived, nFrames, last, held, timedOut>>

ScenarioNext ==
    \/ \E k \in ScenarioPlaces : ScenarioMeasure(k)
    \/ \E k \in ScenarioPlaces : Receive(k)
    \/ Handle
    \/ \E k \in ScenarioPlaces : Wake(k)

ScenarioSpec == ScenarioInit /\ [][ScenarioNext]_vars

(***************************************************************************)
(* Properties.                                                             *)
(***************************************************************************)

\* The unit a slot should hold after update u was handled (NoUpdate: none yet).
Derived(u) ==
    IF u = NoUpdate THEN NilContent
    ELSE IF u.Error # NoError THEN ErrorUnit
    ELSE u.Content

\* C1: every frame printed has exactly N elements, and element i (in print
\* order) is the content of slot i of state, a slot of length 0 shown as the
\* empty unit.
C1_FrameIsState ==
    nFrames > 0 =>
        /\ Len(frame) = N
        /\ \A i \in Places : frame[i + 1] = Shown(state[i])

C1_Witness ==
    /\ nFrames >= 2
    /\ \E i, j \in Places : i < j /\ state[i] = NilContent /\ state[j] # NilContent

\* C2: the frame printed for an update of place k equals the frame printed
\* before it in every element other than k.
C2_OnlySlotChanges ==
    [][(nFrames' # nFrames /\ nFrames > 0) =>
            \A j \in Places \ {update.Place} : frame'[j + 1] = frame[j + 1]]_vars

C2_Witness ==
    /\ nFrames >= 2
    /\ \E i, j \in Places : i # j /\ frame[i + 1] # EmptyUnit /\ frame[j + 1] # EmptyUnit

\* C3: once an update is handled, slot i holds the value derived from the
\* update received last for place i: its content, the error unit if it carried
\* an error, nothing if there was none.  A later success replaces an error unit.
C3_LastWriteWins ==
    \A i \in Places :
        \/ mainPc = "handle" /\ update.Place = i
        \/ state[i] = Derived(last[i])

\* Two updates were handled, one of them an error, and the only slot written
\* holds content: the error unit was replaced by the later success.
C3_Witness ==
    /\ nFrames = 2
    /\ logs = 1
    /\ mainPc = "recv"
    /\ \E i \in Places :
        /\ state[i] # NilContent
        /\ state[i] # ErrorUnit
        /\ \A j \in Places \ {i} : state[j] = NilContent

\* C4: while no update for place k was received, slot k is empty and every
\* frame shows the canonical empty unit at element k.
C4_EmptyUntilReported ==
    /\ DOMAIN state = Places
    /\ \A k \in Places :
        last[k] = NoUpdate =>
            /\ state[k] = NilContent
            /\ nFrames > 0 => frame[k + 1] = EmptyUnit

C4_Witness ==
    /\ nFrames >= 1
    /\ \E k \in Places : last[k] = NoUpdate /\ frame[k + 1] = EmptyUnit

\* C5: the frame printed for an update of place k that carries an error shows
\* the error unit at element k, which is neither the empty unit nor the
\* update's own content as stored first; every other element shows its slot
\* unchanged.
C5_ErrorUnitShown ==
    [][(nFrames' # nFrames /\ update.Error # NoError) =>
            /\ frame'[update.Place + 1] = ErrorUnit
            /\ ErrorUnit # EmptyUnit
            /\ frame'[update.Place + 1] # Shown(update.Content)
            /\ \A j \in Places \ {update.Place} :
                /\ frame'[j + 1] = Shown(state[j])
                /\ nFrames > 0 => frame'[j + 1] = frame[j + 1]]_vars

C5_Witness ==
    /\ nFrames >= 2
    /\ \E k, j \in Places :
        /\ k # j
        /\ frame[k + 1] = ErrorUnit
        /\ last[k].Error # NoError
        /\ frame[j + 1] # EmptyUnit

\* C6: one frame per update received, in order: the frames printed are as many
\* as the updates received, less the one being handled, and the update being
\* handled is the one received last.
C6_OneFramePerReport ==
    /\ nFrames = nReceived - (IF mainPc = "handle" THEN 1 ELSE 0)
    /\ mainPc = "handle" => update # NoUpdate /\ update = last[update.Place]
    /\ mainPc = "recv" => update = NoUpdate

C6_Witness ==
    /\ nFrames >= 2
    /\ mainPc = "handle"

\* Every goroutine is blocked for ever: main waits in range and every updater returned.
GoDeadlock == mainPc = "recv" /\ \A k \in Places : pc[k] = "done"

\* C7: with fair scheduling the program never deadlocks and every update an
\* updater sends is eventually received (its send completes) and printed in a
\* frame (main finishes the loop body it entered on receiving it).
C7_EverySendRendered ==
    /\ []~GoDeadlock
    /\ \A k \in Places : (pc[k] = "send") ~> (pc[k] = "sleep")
    /\ (mainPc = "handle") ~> (mainPc = "recv")

\* A frame was printed, and an updater is blocked in its send while main
\* handles the update of another one.
C7_Witness ==
    /\ nFrames >= 1
    /\ mainPc = "handle"
    /\ \E k \in Places : pc[k] = "send" /\ pending[k] > 0 /\ update.Place # k

\* C8: no updater's loop ever terminates.
C8_NoUpdaterReturns == \A k \in Places : pc[k] # "done"

\* C9: every cycle of every updater sends exactly one update and then sleeps:
\* a measurement is followed by the send, and a sleep only follows a send.
C9_OneReportPerCycle ==
    [][\A k \in Places :
            /\ (pc[k] = "measure" /\ pc'[k] # "measure") => pc'[k] = "send"
            /\ (pc[k] # "sleep" /\ pc'[k] = "sleep") => pc[k] = "send"]_vars

\* C10: an updater blocked in its send never has to wait for main to finish
\* handling the update of another updater.
C10_SendNeverWaits ==
    \A k \in Places : ~(pc[k] = "send" /\ mainPc = "handle" /\ update.Place # k)

\* C11: an updater that has returned, or that sends only errors, stalls nobody:
\* main can always receive from any updater blocked in its send, handling an
\* update (with or without an error) brings main back to its receive, and it
\* changes no slot but the update's own.
C11_OthersUnaffected ==
    /\ [](\A j \in Places : (pc[j] = "send" /\ mainPc = "recv") => ENABLED Receive(j))
    /\ [][nFrames' # nFrames =>
            /\ mainPc' = "recv"
            /\ \A j \in Places \ {update.Place} : state'[j] = state[j]]_vars

\* An updater has returned or reported an error, and afterwards at least one
\* frame was printed while main handles the update of another updater.
C11_Witness ==
    /\ nFrames >= 1
    /\ mainPc = "handle"
    /\ update.Error = NoError
    /\ \E k \in Places \ {update.Place} : pc[k] = "done" \/ state[k] = ErrorUnit

\* C12: state is written by main's loop body only; no step of an updater
\* goroutine changes it.
C12_OnlyMainWritesState ==
    [][state' # state => (mainPc = "handle" /\ mainPc' = "recv" /\ pc' = pc /\ msg' = msg)]_vars

C12_Witness ==
    /\ nFrames >= 1
    /\ \E k, j \in Places : pc[k] = "send" /\ state[j] # NilContent

\* C13: nothing but the header and the frames is ever written to stdout.
C13_OnlyFramesOnStdout == stray = 0

\* C14: an update carries content or an error, never both and never neither.
C14_ContentXorError ==
    /\ \A k \in Places :
        pc[k] = "send" => (msg[k].Error = NoError <=> Len(msg[k].Content) > 0)
    /\ mainPc = "handle" => (update.Error = NoError <=> Len(update.Content) > 0)

C14_Witness ==
    \E k, j \in Places :
        /\ pc[k] = "send" /\ msg[k].Error # NoError
        /\ pc[j] = "send" /\ msg[j].Error = NoError

\* C15: every update of updater k carries place k, a valid index of state, so
\* main's write is within bounds and no two updaters write the same slot.
C15_PlaceIsOwnSlot ==
    /\ \A k \in Places :
        /\ pc[k] = "send" => msg[k].Place = k
        /\ last[k] # NoUpdate => last[k].Place = k
    /\ mainPc = "handle" => update.Place \in DOMAIN state
    /\ Cardinality({Kind(k) : k \in Places}) = N

C15_Witness ==
    /\ mainPc = "handle"
    /\ update.Place = N - 1
    /\ \E k \in Places : pc[k] = "send" /\ last[k] # NoUpdate

\* C20: an updater has at most one update waiting to be received: its update
\* is in the channel exactly while it is blocked in its send, the updates it
\* sent and main has not printed yet are that one and the one main is handling,
\* and it measures again only after main received the previous one.
C20_OneOutstanding ==
    \A k \in Places :
        /\ msg[k] # NoUpdate <=> pc[k] = "send"
        /\ pending[k] = (IF pc[k] = "send" THEN 1 ELSE 0)
                        + (IF mainPc = "handle" /\ update.Place = k THEN 1 ELSE 0)
        /\ pc[k] = "measure" => msg[k] = NoUpdate

\* An updater is blocked in its second send while another one is blocked too.
C20_Witness ==
    \E k, j \in Places :
        /\ k # j
        /\ pc[k] = "send" /\ last[k] # NoUpdate
        /\ pc[j] = "send"

\* C16: an updater holds no resource of an earlier cycle when it sleeps or
\* starts its next cycle.
C16_NothingHeldBetweenCycles ==
    \A k \in Places : pc[k] \in {"sleep", "measure"} => held[k] = 0

\* C17: when the command of volume is killed by its deadline, the cycle fails
\* and volume still reaches its send and its later cycles: it has not returned.
C17_TimeoutStillReports ==
    \A k \in Places : (Kind(k) = "volume" /\ timedOut) => pc[k] # "done"

\* C18: the frame depends on state alone: an update that leaves state as it
\* was is answered by a frame equal to the one before.
C18_SameStateSameFrame ==
    [][(nFrames' # nFrames /\ nFrames > 0 /\ state' = state) => frame' = frame]_vars

\* Two updates of memory, which formats one text here, were handled and
\* nothing else: the second left state unchanged.
C18_Witness ==
    /\ nFrames = 2
    /\ mainPc = "recv"
    /\ logs = 0
    /\ state[0] # NilContent
    /\ \A j \in Places \ {0} : state[j] = NilContent

ScenarioFirst == Update(0, Marshal("50%"), NoError)

ScenarioSecond == Update(1, Marshal("2024-01-01 00:00:00"), NoError)

\* C19: with two updaters, when the update of slot 0 with text "50%" is
\* received first and that of slot 1 with text "2024-01-01 00:00:00" second,
\* the first frame is the unit of "50%" and the empty unit, the second frame
\* the unit of "50%" and the unit of "2024-01-01 00:00:00".
C19_TwoSensorScenario ==
    [][/\ (nFrames = 0 /\ nFrames' = 1 /\ update = ScenarioFirst) =>
            frame' = <<Marshal("50%"), EmptyUnit>>
       /\ (nFrames = 1 /\ nFrames' = 2 /\ last[0] = ScenarioFirst /\ update = ScenarioSecond) =>
            frame' = <<Marshal("50%"), Marshal("2024-01-01 00:00:00")>>]_vars

C19_Witness ==
    /\ nFrames = 2
    /\ nReceived = 2
    /\ last[0] = ScenarioFirst
    /\ last[1] = ScenarioSecond
    /\ frame = <<Marshal("50%"), Marshal("2024-01-01 00:00:00")>>

====
